---- MODULE Spec2Model ----
(***************************************************************************)
(* A model of the deepstock-bot scan pipeline: the Telegram dispatcher     *)
(* (alerts/telegram.py), the scoring engine (analysis/filter.py), the scan *)
(* orchestrator with its continuous mode (scanner.py), the score bar and   *)
(* the digest of alerts/formatter.py and the plain-text stripping of       *)
(* alerts/email.py.                                                        *)
(*                                                                         *)
(* Python strings are TLA+ strings (TLC evaluates Len, \o and SubSeq on    *)
(* them); indices passed to the string helpers are Python's 0-based ones.  *)
(* Scores are kept in tenths of a point (4.0 is 40, 0.5 is 5) so that the  *)
(* float arithmetic of score_trade, whose terms are all multiples of 0.5,  *)
(* is exact integer arithmetic.                                            *)
(***************************************************************************)
EXTENDS Integers, Sequences, FiniteSets, TLC

(***************************************************************************)
(* Bounds of the model.                                                    *)
(***************************************************************************)
\* longest message text handed to send_message
MaxText == 6
\* largest chunk limit tried (send_message passes 4000; the text alphabet
\* and the limit are scaled down together)
MaxLength == 3

VARIABLES
    \* ---- telegram.send_message / _split_message ----
    msg,          \* the text argument of send_message
    max_length,   \* the max_length argument of _split_message
    text,         \* _split_message: the part of the text not yet chunked
    chunks,       \* _split_message: the chunks produced so far
    stripped,     \* history: stripped[i] = number of newlines lstrip removed after chunk i
    spc,          \* position in send_message
    attempts,     \* history: the requests.post calls made, in order
    send_result,  \* the value send_message returned ("none" while running)
    \* ---- filter.score_trade ----
    rec,          \* the trade record handed to score_trade
    rec_score,    \* the score it returned
    rec2,         \* a record that differs from rec in its value only
    rec2_score,   \* the score of rec2
    score_pc,     \* "input", "scored" (rec scored), "rescored" (rec2 scored too),
                  \* "formatted" (the alert of rec formatted)
    score_line,   \* format_breaking_alert: the "Score:" line of the alert of rec
    \* ---- email.send_email / formatter.format_breaking_alert_text ----
    body_html,    \* the HTML text
    body_text,    \* re.sub(r"<[^>]+>", "", body_html)
    restripped,   \* the same substitution applied to body_text
    strip_pc,     \* "input", "once", "twice"
    \* ---- filter.filter_trades ----
    trades,       \* the trades argument (each record gets its score attached)
    min_value,    \* the min_value argument
    min_score,    \* the min_score argument, in tenths
    watchlist,    \* the watchlist argument
    scored_trades,\* the list filter_trades returned
    filter_pc,    \* "input" before the call, "done" after it
    \* ---- scanner.DeepStockScanner.run_scan ----
    settings,       \* self.settings, as far as run_scan reads it
    pc,             \* position in run_scan
    all_trades,     \* what fetch_all_trades returned
    filtered,       \* what filter_trades returned (records gain ai_analysis)
    analyzed_trades,\* the trades that get an individual alert
    patterns,       \* the pattern report, or None
    alerts_sent,    \* the local counter of run_scan
    idx,            \* 1-based position of the for loops over the top trades
    results,        \* the mapping run_scan returned
    sends,          \* history: the channel sends attempted, in order
    send_tally,     \* history: how many sends of each kind returned True / False
    ai_calls,       \* history: the positions of the trades analyze_trade was called for
    pattern_calls,  \* history: the batches detect_patterns was called with
    digest_html,    \* what format_daily_digest returned, None before the call
    \* ---- the data sources ----
    source_cap,     \* most records the sources hold together in this run
    \* ---- scanner.DeepStockScanner.watch ----
    wpc,            \* position in watch
    cycles,         \* the run_scan calls watch has started
    escaped,        \* the exception that left watch ("none" when none did)
    at_interrupt,   \* history: where watch was when SIGINT arrived, None before
    prev,           \* history: the last cycle that returned, None before
    \* ---- analysis/ai_analyst.py: _parse_json_response ----
    llm_text,       \* the provider's reply: None or a text
    parse_pc,       \* position in _parse_json_response
    tried,          \* history: the strategies json.loads was called for, in order
    parsed          \* what _parse_json_response returned

sendVars == <<msg, max_length, text, chunks, stripped, spc, attempts, send_result>>

scoreVars == <<rec, rec_score, rec2, rec2_score, score_pc, score_line>>

stripVars == <<body_html, body_text, restripped, strip_pc>>

parseVars == <<llm_text, parse_pc, tried, parsed>>

filterVars == <<trades, min_value, min_score, watchlist, scored_trades, filter_pc>>

scanVars == <<settings, pc, all_trades, filtered, analyzed_trades, patterns,
              alerts_sent, idx, results, sends, send_tally, ai_calls, pattern_calls,
              digest_html>>

envVars == <<source_cap>>

watchVars == <<wpc, cycles, escaped, at_interrupt, prev>>

vars == <<sendVars, scoreVars, filterVars, scanVars, envVars, watchVars, stripVars,
          parseVars>>

\* what the actions of one component leave alone
notSend == <<scoreVars, filterVars, scanVars, envVars, watchVars, stripVars,
            parseVars>>

notScore == <<sendVars, filterVars, scanVars, envVars, watchVars, stripVars,
            parseVars>>

notFilter == <<sendVars, scoreVars, scanVars, envVars, watchVars, stripVars,
            parseVars>>

notScan == <<sendVars, scoreVars, filterVars, envVars, watchVars, stripVars,
            parseVars>>

notWatch == <<sendVars, scoreVars, filterVars, envVars, stripVars, parseVars>>

notStrip == <<sendVars, scoreVars, filterVars, scanVars, envVars, watchVars,
             parseVars>>

notParse == <<sendVars, scoreVars, filterVars, scanVars, envVars, watchVars,
             stripVars>>

(***************************************************************************)
(* Python string operations, computed as CPython computes them.            *)
(***************************************************************************)
SetMax(S) == CHOOSE m \in S : \A x \in S : x <= m

Min2(a, b) == IF a <= b THEN a ELSE b

\* s[i] (0-based)
CharAt(s, i) == SubSeq(s, i + 1, i + 1)

\* s[a:b] for 0 <= a, b; indices beyond the end are clipped as Python does
Slice(s, a, b) == SubSeq(s, a + 1, Min2(b, Len(s)))

\* s[a:]
SliceFrom(s, a) == SubSeq(s, a + 1, Len(s))

\* s.rfind(c, start, end) for a one-character c: the highest index i with
\* start <= i < min(end, len(s)) and s[i] = c, or -1
Rfind(s, c, start, end) ==
    LET hits == {i \in start..(Min2(end, Len(s)) - 1) : CharAt(s, i) = c}
    IN IF hits = {} THEN -1 ELSE SetMax(hits)

\* s.lstrip("\n")
RECURSIVE LstripNewlines(_)
LstripNewlines(s) ==
    IF Len(s) > 0 /\ CharAt(s, 0) = "\n" THEN LstripNewlines(SliceFrom(s, 1)) ELSE s

\* every string over the alphabet A of length exactly n / at most n
RECURSIVE StringsOfLen(_, _)
StringsOfLen(A, n) ==
    IF n = 0 THEN {""} ELSE {s \o c : s \in StringsOfLen(A, n - 1), c \in A}

StringsUpTo(A, n) == UNION {StringsOfLen(A, k) : k \in 0..n}

RECURSIVE Repeat(_, _)
Repeat(c, n) == IF n <= 0 THEN "" ELSE c \o Repeat(c, n - 1)

UpperChars == "ABCDEFGHIJKLMNOPQRSTUVWXYZ"

LowerChars == "abcdefghijklmnopqrstuvwxyz"

\* the position (1-based) of the one-character string c in alphabet, or 0
IndexIn(alphabet, c) ==
    LET hits == {i \in 1..Len(alphabet) : SubSeq(alphabet, i, i) = c}
    IN IF hits = {} THEN 0 ELSE CHOOSE i \in hits : TRUE

LowerChar(c) ==
    LET i == IndexIn(UpperChars, c) IN IF i = 0 THEN c ELSE SubSeq(LowerChars, i, i)

UpperChar(c) ==
    LET i == IndexIn(LowerChars, c) IN IF i = 0 THEN c ELSE SubSeq(UpperChars, i, i)

\* s.lower()
RECURSIVE Lower(_)
Lower(s) == IF s = "" THEN "" ELSE LowerChar(CharAt(s, 0)) \o Lower(SliceFrom(s, 1))

\* s.upper()
RECURSIVE Upper(_)
Upper(s) == IF s = "" THEN "" ELSE UpperChar(CharAt(s, 0)) \o Upper(SliceFrom(s, 1))

\* s.strip(): leading and trailing whitespace removed
RECURSIVE Strip(_)
Strip(s) ==
    IF s = "" THEN ""
    ELSE IF CharAt(s, 0) \in {" ", "\n", "\t"} THEN Strip(SliceFrom(s, 1))
    ELSE IF CharAt(s, Len(s) - 1) \in {" ", "\n", "\t"} THEN Strip(Slice(s, 0, Len(s) - 1))
    ELSE s

\* needle in hay (substring test; the empty string is in every string)
Contains(hay, needle) ==
    \E i \in 0..(Len(hay) - Len(needle)) : Slice(hay, i, i + Len(needle)) = needle

\* d.get(k, default) for a dict d, modelled as a function on its keys
Get(d, k, default) == IF k \in DOMAIN d THEN d[k] ELSE default

\* d[k] = v
SetKey(d, k, v) == [x \in DOMAIN d \cup {k} |-> IF x = k THEN v ELSE d[x]]

EmptyDict == [x \in {} |-> 0]

\* the dict holding the entries of d whose keys are in K
Restrict(d, K) == [x \in K |-> d[x]]

(***************************************************************************)
(* alerts/telegram.py                                                      *)
(***************************************************************************)
TextAlphabet == {"a", "b", "\n"}

Texts == StringsUpTo(TextAlphabet, MaxText)

\* what one requests.post of a chunk can come to: a reply with ok = true,
\* a reply with ok = false, raise_for_status raising HTTPError, or the
\* transport raising another RequestException
PostOutcomes == {"ok", "api_not_ok", "http_error", "transport_error"}

SendIdle ==
    /\ msg = ""
    /\ max_length = 0
    /\ text = ""
    /\ chunks = <<>>
    /\ stripped = <<>>
    /\ spc = "idle"
    /\ attempts = <<>>
    /\ send_result = "none"

ScoreIdle ==
    /\ rec = EmptyDict
    /\ rec_score = 0
    /\ rec2 = EmptyDict
    /\ rec2_score = 0
    /\ score_pc = "idle"
    /\ score_line = ""

FilterIdle ==
    /\ trades = <<>>
    /\ min_value = 0
    /\ min_score = 0
    /\ watchlist = <<>>
    /\ scored_trades = <<>>
    /\ filter_pc = "idle"

SendKinds == {"alert", "digest"}

Channels == {"telegram", "email"}

NoSendsYet == [k \in SendKinds \X BOOLEAN |-> 0]

\* Python's None
None == [kind |-> "None"]

ScanIdle ==
    /\ settings = EmptyDict
    /\ pc = "idle"
    /\ all_trades = <<>>
    /\ filtered = <<>>
    /\ analyzed_trades = <<>>
    /\ patterns = None
    /\ alerts_sent = 0
    /\ idx = 0
    /\ results = EmptyDict
    /\ sends = <<>>
    /\ send_tally = NoSendsYet
    /\ ai_calls = <<>>
    /\ pattern_calls = <<>>
    /\ digest_html = None

\* no text is being stripped
StripIdle ==
    /\ body_html = ""
    /\ body_text = ""
    /\ restripped = ""
    /\ strip_pc = "idle"

\* no reply is being parsed
ParseIdle ==
    /\ llm_text = None
    /\ parse_pc = "idle"
    /\ tried = <<>>
    /\ parsed = None

\* watch has not been called
WatchIdle ==
    /\ wpc = "idle"
    /\ cycles = 0
    /\ escaped = "none"
    /\ at_interrupt = None
    /\ prev = None

SendInit ==
    /\ ScoreIdle
    /\ FilterIdle
    /\ ScanIdle
    /\ WatchIdle
    /\ StripIdle
    /\ ParseIdle
    /\ source_cap = 0
    /\ msg \in Texts
    /\ max_length \in 1..MaxLength
    /\ text = msg
    /\ chunks = <<>>
    /\ stripped = <<>>
    /\ spc = "split"
    /\ attempts = <<>>
    /\ send_result = "none"

\* _split_message, line 59-60: a text within the limit is its own single chunk
SplitShort ==
    /\ spc = "split"
    /\ Len(text) <= max_length
    /\ chunks' = <<text>>
    /\ spc' = "post"
    /\ UNCHANGED <<msg, max_length, text, stripped, attempts, send_result>>
    /\ UNCHANGED notSend

\* _split_message, line 62-63: enter the while loop
SplitBegin ==
    /\ spc = "split"
    /\ Len(text) > max_length
    /\ chunks' = <<>>
    /\ spc' = "loop"
    /\ UNCHANGED <<msg, max_length, text, stripped, attempts, send_result>>
    /\ UNCHANGED notSend

\* SplitAt that also takes a newline sitting right behind the first limit
\* characters (rfind up to limit + 1)
SplitAtNewlineAtLimit(t, limit) ==
    LET split_at == Rfind(t, "\n", 0, limit + 1)
    IN IF split_at = -1 THEN limit ELSE split_at

\* SplitAt with the hard split one character too far
SplitAtHardSplitOffByOne(t, limit) ==
    LET split_at == Rfind(t, "\n", 0, limit)
    IN IF split_at = -1 THEN limit + 1 ELSE split_at

\* the split position of one loop iteration, lines 67-69
SplitAt(t, limit) ==
    LET split_at == Rfind(t, "\n", 0, limit)
    IN IF split_at = -1 THEN limit ELSE split_at

\* one iteration of the while loop that cuts a chunk off, lines 67-71
SplitLoopCut ==
    /\ spc = "loop"
    /\ text # ""
    /\ Len(text) > max_length
    /\ LET split_at == SplitAt(text, max_length)
           rest == SliceFrom(text, split_at)
       IN /\ chunks' = Append(chunks, Slice(text, 0, split_at))
          /\ text' = LstripNewlines(rest)
          /\ stripped' = Append(stripped, Len(rest) - Len(LstripNewlines(rest)))
    /\ UNCHANGED <<msg, max_length, spc, attempts, send_result>>
    /\ UNCHANGED notSend

\* the iteration that takes the rest whole and breaks, lines 64-66
SplitLoopLast ==
    /\ spc = "loop"
    /\ text # ""
    /\ Len(text) <= max_length
    /\ chunks' = Append(chunks, text)
    /\ spc' = "post"
    /\ UNCHANGED <<msg, max_length, text, stripped, attempts, send_result>>
    /\ UNCHANGED notSend

\* the while condition fails: nothing is left, line 63 -> 73
SplitLoopExit ==
    /\ spc = "loop"
    /\ text = ""
    /\ spc' = "post"
    /\ UNCHANGED <<msg, max_length, text, chunks, stripped, attempts, send_result>>
    /\ UNCHANGED notSend

\* send_message, lines 36-46: the post of the next chunk succeeds
PostChunkOk ==
    /\ spc = "post"
    /\ Len(attempts) < Len(chunks)
    /\ attempts' = Append(attempts, [chunk |-> Len(attempts) + 1, outcome |-> "ok"])
    /\ UNCHANGED <<msg, max_length, text, chunks, stripped, spc, send_result>>
    /\ UNCHANGED notSend

\* PostChunkFail that logs the failure and goes on with the next chunk
PostChunkFailKeepGoing(kind) ==
    /\ spc = "post"
    /\ Len(attempts) < Len(chunks)
    /\ attempts' = Append(attempts, [chunk |-> Len(attempts) + 1, outcome |-> kind])
    /\ UNCHANGED <<msg, max_length, text, chunks, stripped, spc, send_result>>
    /\ UNCHANGED notSend

\* send_message, lines 46-51: the post of the next chunk fails; the function returns False
PostChunkFail(kind) ==
    /\ spc = "post"
    /\ Len(attempts) < Len(chunks)
    /\ attempts' = Append(attempts, [chunk |-> Len(attempts) + 1, outcome |-> kind])
    /\ send_result' = "False"
    /\ spc' = "returned"
    /\ UNCHANGED <<msg, max_length, text, chunks, stripped>>
    /\ UNCHANGED notSend

\* send_message, lines 53-54: the for loop ran out of chunks
SendReturnTrue ==
    /\ spc = "post"
    /\ Len(attempts) = Len(chunks)
    /\ send_result' = "True"
    /\ spc' = "returned"
    /\ UNCHANGED <<msg, max_length, text, chunks, stripped, attempts>>
    /\ UNCHANGED notSend

SendNext ==
    \/ SplitShort
    \/ SplitBegin
    \/ SplitLoopCut
    \/ SplitLoopLast
    \/ SplitLoopExit
    \/ PostChunkOk
    \/ \E kind \in PostOutcomes \ {"ok"} : PostChunkFail(kind)
    \/ SendReturnTrue

SpecSend == SendInit /\ [][SendNext]_vars

(***************************************************************************)
(* Properties of the dispatcher.                                           *)
(***************************************************************************)
FailedAttempts == {j \in 1..Len(attempts) : attempts[j].outcome # "ok"}

\* C1 (as stated): when a text is split into two or more chunks and the
\* post of one of them fails, send_message still posts every chunk, in
\* order, and returns False.
C1_RemainingChunksAttempted ==
    (spc = "returned" /\ Len(chunks) >= 2 /\ FailedAttempts # {})
        => /\ Len(attempts) = Len(chunks)
           /\ \A j \in 1..Len(attempts) : attempts[j].chunk = j
           /\ send_result = "False"

\* C1 (amended): chunks are posted in order; a failed post is the last post
\* of the call, which then returns False with the chunks after it never
\* posted; the call returns True exactly when every chunk was posted and
\* every post succeeded.
C1_StopsAtFirstFailedChunk ==
    /\ \A j \in 1..Len(attempts) : attempts[j].chunk = j
    /\ \A j \in FailedAttempts :
           j = Len(attempts) /\ spc = "returned" /\ send_result = "False"
    /\ spc = "returned" =>
           /\ send_result = "False" <=> FailedAttempts # {}
           /\ send_result = "True" <=>
                  (Len(attempts) = Len(chunks) /\ FailedAttempts = {})

\* a three-chunk send whose second post failed: the third chunk was not posted
C1_Witness ==
    /\ spc = "returned"
    /\ send_result = "False"
    /\ Len(chunks) >= 3
    /\ Len(attempts) = 2

\* the text put together again from the chunks and the newlines lstrip removed
RECURSIVE Rebuild(_, _, _)
Rebuild(cs, ns, i) ==
    IF i > Len(cs) THEN ""
    ELSE cs[i] \o Repeat("\n", IF i <= Len(ns) THEN ns[i] ELSE 0) \o Rebuild(cs, ns, i + 1)

SplitDone == spc \in {"post", "returned"}

\* C2: for a text longer than max_length, no chunk of _split_message is
\* longer than max_length, and the chunks in order, with the newlines
\* stripped at each split point put back, are exactly the original text.
C2_ChunksRebuildText ==
    (SplitDone /\ Len(msg) > max_length)
        => /\ \A i \in 1..Len(chunks) : Len(chunks[i]) <= max_length
           /\ Rebuild(chunks, stripped, 1) = msg

\* a split with a hard cut and a cut at a newline that stripped newlines
C2_Witness ==
    /\ SplitDone
    /\ Len(chunks) >= 3
    /\ \E i \in 1..Len(chunks) : Len(chunks[i]) = max_length
    /\ \E i \in 1..Len(stripped) : stripped[i] >= 2

(***************************************************************************)
(* analysis/filter.py                                                      *)
(***************************************************************************)
NOTABLE_INSIDERS == {
    "Nancy Pelosi", "Dan Crenshaw", "Tommy Tuberville", "Mark Green",
    "Josh Gottheimer", "Michael McCaul", "Pat Fallon", "Virginia Foxx",
    "Ro Khanna", "Marjorie Taylor Greene",
    "Elon Musk", "Tim Cook", "Satya Nadella", "Lisa Su", "Jensen Huang",
    "Jamie Dimon", "Warren Buffett", "Mark Zuckerberg", "Sundar Pichai",
    "Andy Jassy", "Pat Gelsinger", "Hock Tan",
    "Cathie Wood", "Michael Burry", "Carl Icahn", "Bill Ackman",
    "George Soros", "Ken Griffin", "Ray Dalio", "Stanley Druckenmiller",
    "David Tepper", "Howard Marks"}

HIGH_SIGNAL_TITLES == {
    "ceo", "cfo", "coo", "cto", "president", "chairman",
    "chief executive", "chief financial", "chief operating",
    "director", "10% owner", "officer"}

\* notable.lower() for every notable in NOTABLE_INSIDERS (line 36), computed once
NotableLowered == {Lower(notable) : notable \in NOTABLE_INSIDERS}

is_notable_insider(name) ==
    LET name_lower == Strip(Lower(name))
    IN \E notable_lower \in NotableLowered :
           \/ Contains(name_lower, notable_lower)
           \/ Contains(notable_lower, name_lower)

is_high_signal_title(title) ==
    LET title_lower == Lower(title)
    IN \E t \in HIGH_SIGNAL_TITLES : Contains(title_lower, t)

\* ValuePoints with the 100K and 500K rungs of the ladder exchanged
ValuePointsRungsSwapped(value) ==
    IF value >= 10000000 THEN 40
    ELSE IF value >= 1000000 THEN 30
    ELSE IF value >= 500000 THEN 10
    ELSE IF value >= 100000 THEN 20
    ELSE IF value >= 50000 THEN 5
    ELSE 0

\* score_trade, lines 65-75: the value ladder, in tenths of a point
ValuePoints(value) ==
    IF value >= 10000000 THEN 40
    ELSE IF value >= 1000000 THEN 30
    ELSE IF value >= 500000 THEN 20
    ELSE IF value >= 100000 THEN 10
    ELSE IF value >= 50000 THEN 5
    ELSE 0

\* TransactionPoints with a sale taking half a point off
TransactionPointsSalePenalty(tx_type) ==
    IF tx_type \in {"P", "BUY", "A"} THEN 15
    ELSE IF tx_type \in {"S", "SELL", "D"} THEN -5
    ELSE 0

\* score_trade, lines 85-90: the buy / sell bonus
TransactionPoints(tx_type) ==
    IF tx_type \in {"P", "BUY", "A"} THEN 15
    ELSE IF tx_type \in {"S", "SELL", "D"} THEN 5
    ELSE 0

score_trade(trade) ==
    LET value == Get(trade, "value", 0)
        score == ValuePoints(value)
                 + (IF is_notable_insider(Get(trade, "insider_name", "")) THEN 20 ELSE 0)
                 + (IF is_high_signal_title(Get(trade, "insider_title", "")) THEN 15 ELSE 0)
                 + TransactionPoints(Upper(Get(trade, "transaction_type", "")))
                 + (IF Contains(Lower(Get(trade, "source", "")), "congress") THEN 10 ELSE 0)
    IN Min2(score, 100)

\* filter_trades, lines 119-121: every input record gets its score attached
ScoreAll(ts) == [i \in 1..Len(ts) |-> SetKey(ts[i], "score", score_trade(ts[i]))]

\* Retained with the value floor joined by "or" instead of "and"
RetainedEitherThreshold(trade, minv, mins, watchlist_set) ==
    \/ Get(trade, "value", 0) >= minv \/ trade["score"] >= mins
    \/ Upper(Get(trade, "ticker", "")) \in watchlist_set

\* filter_trades, lines 122-125: the retention test of one scored record
Retained(trade, minv, mins, watchlist_set) ==
    \/ Get(trade, "value", 0) >= minv /\ trade["score"] >= mins
    \/ Upper(Get(trade, "ticker", "")) \in watchlist_set

\* the sort key of line 128
SortKey(t) == Get(t, "score", 0)

\* InsertByScore that puts a record in front of the records of equal score
InsertByScoreBeforeTies(acc, x) ==
    LET k == Cardinality({i \in 1..Len(acc) : SortKey(acc[i]) > SortKey(x)})
    IN SubSeq(acc, 1, k) \o <<x>> \o SubSeq(acc, k + 1, Len(acc))

\* one insertion of list.sort(key=score, reverse=True): x goes behind every
\* record whose key is not smaller (the sort is stable, also when reversed)
InsertByScore(acc, x) ==
    LET k == Cardinality({i \in 1..Len(acc) : SortKey(acc[i]) >= SortKey(x)})
    IN SubSeq(acc, 1, k) \o <<x>> \o SubSeq(acc, k + 1, Len(acc))

\* scored_trades.sort(key=lambda t: t.get("score", 0), reverse=True), line 128
RECURSIVE SortByScoreDesc(_)
SortByScoreDesc(ts) ==
    IF ts = <<>> THEN <<>>
    ELSE InsertByScore(SortByScoreDesc(SubSeq(ts, 1, Len(ts) - 1)), ts[Len(ts)])

filter_trades(ts, minv, mins, wl) ==
    LET watchlist_set == {Upper(wl[i]) : i \in 1..Len(wl)}
        kept(t) == Retained(t, minv, mins, watchlist_set)
    IN SortByScoreDesc(SelectSeq(ScoreAll(ts), kept))

(***************************************************************************)
(* score_trade as a function of one record.                                *)
(***************************************************************************)
ScoreValues == {0, 40000, 50000, 99999, 100000, 499999, 500000, 1000000, 10000000, 15000000}

ScoreNames == {"", "Nancy Pelosi", "Random Person"}

ScoreTitles == {"", "CEO", "Analyst"}

ScoreTransactionTypes == {"", "P", "sell", "X"}

ScoreSources == {"", "fmp", "finnhub_congress"}

ScoreKeys == {"value", "insider_name", "insider_title", "transaction_type", "source"}

\* every record over the five fields score_trade reads, each field either
\* taking one of the values above or missing from the record
ScoreRecords ==
    {Restrict(full, K) :
        full \in [value : ScoreValues, insider_name : ScoreNames,
                  insider_title : ScoreTitles,
                  transaction_type : ScoreTransactionTypes,
                  source : ScoreSources],
        K \in SUBSET ScoreKeys}

ScoreInit ==
    /\ SendIdle
    /\ FilterIdle
    /\ ScanIdle
    /\ WatchIdle
    /\ StripIdle
    /\ ParseIdle
    /\ source_cap = 0
    /\ rec \in ScoreRecords
    /\ rec_score = 0
    /\ rec2 = EmptyDict
    /\ rec2_score = 0
    /\ score_pc = "input"
    /\ score_line = ""

\* score_trade(rec)
ScoreTrade ==
    /\ score_pc = "input"
    /\ rec_score' = score_trade(rec)
    /\ score_pc' = "scored"
    /\ UNCHANGED <<rec, rec2, rec2_score, score_line>>
    /\ UNCHANGED notScore

\* score_trade of the record that differs from rec only in its value, v
ScoreRevalued(v) ==
    /\ score_pc = "scored"
    /\ rec2' = SetKey(rec, "value", v)
    /\ rec2_score' = score_trade(SetKey(rec, "value", v))
    /\ score_pc' = "rescored"
    /\ UNCHANGED <<rec, rec_score, score_line>>
    /\ UNCHANGED notScore

\* round(x) of Python for x = tenths / 10: to the nearest integer, a half
\* to the even neighbour
PyRound(tenths) ==
    LET q == tenths \div 10
        r == tenths % 10
    IN IF r < 5 THEN q
       ELSE IF r > 5 THEN q + 1
       ELSE IF q % 2 = 0 THEN q ELSE q + 1

\* f"{score:.1f}" of a score held in tenths
OneDecimal(tenths) == ToString(tenths \div 10) \o "." \o ToString(tenths % 10)

\* ScoreLine with a bar of round(score) units
ScoreLineRounded(score) ==
    "  Score:   " \o Repeat("█", PyRound(score)) \o " " \o OneDecimal(score) \o "/10"

\* format_breaking_alert, line 33: the bar is '█' * int(score)
ScoreLine(score) ==
    "  Score:   " \o Repeat("█", score \div 10) \o " " \o OneDecimal(score) \o "/10"

\* format_breaking_alert of the scored record (lines 22 and 33)
FormatBreakingAlert ==
    /\ score_pc = "scored"
    /\ score_line' = ScoreLine(rec_score)
    /\ score_pc' = "formatted"
    /\ UNCHANGED <<rec, rec_score, rec2, rec2_score>>
    /\ UNCHANGED notScore

ScoreNext ==
    \/ ScoreTrade
    \/ \E v \in ScoreValues : ScoreRevalued(v)
    \/ FormatBreakingAlert

SpecScore == ScoreInit /\ [][ScoreNext]_vars

\* C7: score_trade returns a score between 0 and 10 (0 and 100 tenths) for
\* every record, whichever of value, insider_name, insider_title,
\* transaction_type and source are missing or empty.
C7_ScoreBounded ==
    /\ score_pc \in {"scored", "rescored"} => rec_score \in 0..100
    /\ score_pc = "rescored" => rec2_score \in 0..100

\* the record with none of the five fields has been scored
C7_Witness ==
    /\ score_pc = "scored"
    /\ DOMAIN rec = {}

\* C8: of two records that differ in value only, the one with the larger
\* value never has the smaller score, and 99,999 against 100,000 is a step
\* of exactly 0.5.
C8_MonotoneInValue ==
    score_pc = "rescored" =>
        LET v1 == Get(rec, "value", 0)
            v2 == rec2["value"]
        IN /\ v1 <= v2 => rec_score <= rec2_score
           /\ v2 <= v1 => rec2_score <= rec_score
           /\ (v1 = 99999 /\ v2 = 100000) => rec2_score - rec_score = 5

\* a record scored at 99,999 and again at 100,000
C8_Witness ==
    /\ score_pc = "rescored"
    /\ "value" \in DOMAIN rec
    /\ rec["value"] = 99999
    /\ rec2["value"] = 100000
    /\ rec2_score = rec_score + 5

(***************************************************************************)
(* filter_trades as a function of one list of records.                     *)
(***************************************************************************)
\* longest list handed to filter_trades
MaxTrades == 3

\* scenario A of the specification: 15M purchase by an unknown person
BigBuy ==
    [source |-> "fmp", ticker |-> "XYZ", insider_name |-> "Random Person",
     insider_title |-> "", transaction_type |-> "P", value |-> 15000000]

\* the same trade in a watchlist ticker: equal score, different record
BigBuyWatched ==
    [source |-> "fmp", ticker |-> "aapl", insider_name |-> "Random Person",
     insider_title |-> "", transaction_type |-> "P", value |-> 15000000]

\* scenario B of the specification: 40K sale by a notable congress member
SmallNotableSale ==
    [source |-> "finnhub_congress", insider_name |-> "Nancy Pelosi",
     transaction_type |-> "S", value |-> 40000]

\* over the value floor but with a score of 1.0 only
DullTrade ==
    [source |-> "fmp", ticker |-> "XYZ", insider_name |-> "Random Person",
     insider_title |-> "Analyst", transaction_type |-> "", value |-> 100000]

\* an EDGAR feed entry: no transaction data, a watchlist ticker
WatchedFiling ==
    [source |-> "edgar", ticker |-> "MSFT", insider_name |-> "4 - Some Filer",
     insider_title |-> "", transaction_type |-> "", value |-> 0]

FilterPool == {BigBuy, BigBuyWatched, SmallNotableSale, DullTrade, WatchedFiling}

SeqsUpTo(S, n) == UNION {[1..k -> S] : k \in 0..n}

FilterInit ==
    /\ SendIdle
    /\ ScoreIdle
    /\ ScanIdle
    /\ WatchIdle
    /\ StripIdle
    /\ ParseIdle
    /\ source_cap = 0
    /\ trades \in SeqsUpTo(FilterPool, MaxTrades)
    /\ min_value \in {40000, 100000}
    /\ min_score \in {20, 40}
    /\ watchlist \in {<<>>, <<"AAPL">>, <<"msft", "AAPL">>}
    /\ scored_trades = <<>>
    /\ filter_pc = "input"

\* scored_trades = filter_trades(trades, min_value, min_score, watchlist)
FilterTrades ==
    /\ filter_pc = "input"
    /\ trades' = ScoreAll(trades)
    /\ scored_trades' = filter_trades(trades, min_value, min_score, watchlist)
    /\ filter_pc' = "done"
    /\ UNCHANGED <<min_value, min_score, watchlist>>
    /\ UNCHANGED notFilter

FilterNext == FilterTrades

SpecFilter == FilterInit /\ [][FilterNext]_vars

Range(f) == {f[i] : i \in DOMAIN f}

\* how often the record r occurs in the list ts
Occurrences(ts, r) == Cardinality({i \in 1..Len(ts) : ts[i] = r})

\* the retention rule as the specification states it, on a scored record
PassesThresholdsOrWatched(t) ==
    \/ (Get(t, "value", 0) >= min_value /\ t["score"] >= min_score)
    \/ \E j \in 1..Len(watchlist) : Upper(Get(t, "ticker", "")) = Upper(watchlist[j])

\* C5: filter_trades returns exactly the input records that are at or over
\* both min_value and min_score or whose uppercased ticker is in the
\* uppercased watchlist, each as often as it occurs in the input.
C5_FilterExact ==
    filter_pc = "done" =>
        \A r \in Range(trades) \cup Range(scored_trades) :
            Occurrences(scored_trades, r) =
                IF PassesThresholdsOrWatched(r) THEN Occurrences(trades, r) ELSE 0

\* scenario B next to a retained trade: the 40,000 sale scored 3.5 is left
\* out with an empty watchlist and min_value 100,000
C5_Witness ==
    /\ filter_pc = "done"
    /\ min_value = 100000
    /\ watchlist = <<>>
    /\ \E i \in 1..Len(trades) :
           /\ trades[i]["value"] = 40000
           /\ trades[i]["score"] = 35
           /\ trades[i] \notin Range(scored_trades)
    /\ scored_trades # <<>>

ScoreIs(s, t) == t["score"] = s

\* C6: the list filter_trades returns is in descending order of score, and
\* the returned records of one score are in the order the input has them in.
C6_SortedStable ==
    filter_pc = "done" =>
        /\ \A p, q \in 1..Len(scored_trades) :
               p < q => scored_trades[p]["score"] >= scored_trades[q]["score"]
        /\ \A s \in {t["score"] : t \in Range(scored_trades)} :
               LET ofScore(t) == ScoreIs(s, t)
                   returnedOfScore(t) == ScoreIs(s, t) /\ t \in Range(scored_trades)
               IN SelectSeq(scored_trades, ofScore) = SelectSeq(trades, returnedOfScore)

\* the sort moved a record forward, and two different records tie
C6_Witness ==
    /\ filter_pc = "done"
    /\ Len(scored_trades) = 3
    /\ scored_trades # SelectSeq(trades, LAMBDA t : t \in Range(scored_trades))
    /\ \E p \in 1..2 :
           /\ scored_trades[p] # scored_trades[p + 1]
           /\ scored_trades[p]["score"] = scored_trades[p + 1]["score"]

(***************************************************************************)
(* scanner.py: DeepStockScanner.fetch_all_trades and run_scan.             *)
(*                                                                         *)
(* Values that come back from the enrichment gateway are Python objects    *)
(* parsed from JSON; they are tagged with their Python type.               *)
(***************************************************************************)
\* most records the sources return together in one cycle
MaxFetch == 6

Dict(d) == [kind |-> "dict", value |-> d]

List(l) == [kind |-> "list", value |-> l]

\* bool(x) of a parsed value
Truthy(x) ==
    CASE x.kind = "None" -> FALSE
      [] x.kind = "dict" -> DOMAIN x.value # {}
      [] x.kind = "list" -> Len(x.value) > 0

\* analyze_trade and detect_patterns log result.get(...) of a truthy result:
\* a truthy result that is no dict raises AttributeError there
RaisesOnGet(result) == Truthy(result) /\ result.kind # "dict"

\* config.Settings defaults
DefaultMinTradeValue == 100000

DefaultWatchlist == <<"AAPL", "MSFT", "NVDA", "TSLA", "AMD", "GOOGL">>

\* the min_score default of filter_trades (2.0), which run_scan does not override
DefaultMinScore == 20

\* the number of trades that get an individual alert (filtered[:5])
TopN == 5

SettingsSpace ==
    [fmp_api_key : BOOLEAN, finnhub_api_key : BOOLEAN,
     has_ai_provider : BOOLEAN, has_telegram : BOOLEAN, has_email : BOOLEAN,
     min_trade_value : {DefaultMinTradeValue}, watchlist : {DefaultWatchlist}]

\* what the source adapters can return (the fields the pipeline reads)
FmpTrades == {BigBuy}

FinnhubTrades ==
    {[source |-> "finnhub_congress", ticker |-> "NVDA", insider_name |-> "Nancy Pelosi",
      insider_title |-> "Congress - House", transaction_type |-> "Sale",
      value |-> 1000000]}

EdgarFilings == {[title |-> "4 - Some Filer (Reporting)", ticker |-> ""]}

\* fetch_all_trades, lines 49-62: the trade record made of one EDGAR filing
FilingToTrade(filing) ==
    [source |-> "edgar", ticker |-> Get(filing, "ticker", ""),
     insider_name |-> Get(filing, "title", ""), insider_title |-> "",
     transaction_type |-> "", value |-> 0]

\* fetch_all_trades: FMP if keyed, then Finnhub if keyed, then EDGAR
FetchResults(s) ==
    LET fmpLists == IF s.fmp_api_key THEN SeqsUpTo(FmpTrades, source_cap) ELSE {<<>>}
        finnhubLists == IF s.finnhub_api_key THEN SeqsUpTo(FinnhubTrades, source_cap) ELSE {<<>>}
        edgarLists == {[k \in 1..Len(fs) |-> FilingToTrade(fs[k])] :
                          fs \in SeqsUpTo(EdgarFilings, source_cap)}
    IN {l \in {f \o c \o e : f \in fmpLists, c \in finnhubLists, e \in edgarLists} :
           Len(l) <= source_cap}

\* what _parse_json_response can hand analyze_trade
GoodAnalysis ==
    [significance_score |-> 8, sentiment |-> "bullish", headline |-> "Big buy",
     analysis |-> "Notable."]

AnalysisResponses == {None, Dict(GoodAnalysis), List(<<1>>)}

\* what _parse_json_response can hand detect_patterns
PatternResponses ==
    {None, Dict([patterns_found |-> 2, summary |-> "Bullish."]),
     Dict([summary |-> "Quiet."]), Dict([patterns_found |-> -1]), List(<<1>>)}

ScanInit ==
    /\ SendIdle
    /\ ScoreIdle
    /\ FilterIdle
    /\ WatchIdle
    /\ StripIdle
    /\ ParseIdle
    /\ source_cap = MaxFetch
    /\ settings \in SettingsSpace
    /\ pc = "start"
    /\ all_trades = <<>>
    /\ filtered = <<>>
    /\ analyzed_trades = <<>>
    /\ patterns = None
    /\ alerts_sent = 0
    /\ idx = 0
    /\ results = EmptyDict
    /\ sends = <<>>
    /\ send_tally = NoSendsYet
    /\ ai_calls = <<>>
    /\ pattern_calls = <<>>
    /\ digest_html = None

\* Filtered that leaves out the trades the cycle before already reported
FilteredSkipsReported(fetched) ==
    LET kept == filter_trades(fetched, settings.min_trade_value,
                              DefaultMinScore, settings.watchlist)
    IN IF prev = None THEN kept
       ELSE SelectSeq(kept, LAMBDA t : t \notin Range(prev.filtered))

\* run_scan, lines 81-85: the filter_trades call
Filtered(fetched) ==
    filter_trades(fetched, settings.min_trade_value, DefaultMinScore, settings.watchlist)

\* EarlySummary that takes the fetched count from the filtered list
EarlySummaryCountsFiltered(fetched, kept) ==
    [trades_fetched |-> Len(kept), trades_filtered |-> 0, alerts_sent |-> 0]

\* run_scan, line 89: the mapping returned when nothing passed the filter
EarlySummary(fetched, kept) ==
    [trades_fetched |-> Len(fetched), trades_filtered |-> 0, alerts_sent |-> 0]

\* run_scan, lines 77-89: fetch and filter; nothing passed, the cycle ends
ScanNothingNotable ==
    /\ pc = "start"
    /\ \E fetched \in FetchResults(settings) :
         LET kept == Filtered(fetched)
         IN /\ kept = <<>>
            /\ all_trades' = ScoreAll(fetched)
            /\ filtered' = kept
            /\ results' = EarlySummary(fetched, kept)
    /\ pc' = "returned"
    /\ UNCHANGED <<settings, digest_html, analyzed_trades, patterns, alerts_sent, idx, sends,
                   send_tally, ai_calls, pattern_calls>>
    /\ UNCHANGED notScan

\* run_scan, lines 77-95: fetch and filter; some trades passed
ScanFoundTrades ==
    /\ pc = "start"
    /\ \E fetched \in FetchResults(settings) :
         LET kept == Filtered(fetched)
         IN /\ kept # <<>>
            /\ all_trades' = ScoreAll(fetched)
            /\ filtered' = kept
    /\ analyzed_trades' = <<>>
    /\ idx' = 1
    /\ pc' = "analyze"
    /\ UNCHANGED <<settings, digest_html, patterns, alerts_sent, results, sends, send_tally,
                   ai_calls, pattern_calls>>
    /\ UNCHANGED notScan

\* TopCount without the cut at five
TopCountAll == Len(filtered)

\* run_scan, lines 98 and 115: the length of filtered[:5]
TopCount == Min2(TopN, Len(filtered))

\* run_scan, lines 98-106: one iteration of the loop over filtered[:5]
AnalyzeTrade(response) ==
    /\ pc = "analyze"
    /\ settings.has_ai_provider
    /\ idx <= TopCount
    /\ ~RaisesOnGet(response)
    /\ filtered' = [filtered EXCEPT ![idx] = SetKey(@, "ai_analysis", response)]
    /\ analyzed_trades' = Append(analyzed_trades, SetKey(filtered[idx], "ai_analysis", response))
    /\ ai_calls' = Append(ai_calls, idx)
    /\ idx' = idx + 1
    /\ UNCHANGED <<settings, digest_html, pc, all_trades, patterns, alerts_sent, results, sends,
                   send_tally, pattern_calls>>
    /\ UNCHANGED notScan

\* the same iteration when analyze_trade raises (ai_analyst.py lines 171-177)
AnalyzeTradeRaises(response) ==
    /\ pc = "analyze"
    /\ settings.has_ai_provider
    /\ idx <= TopCount
    /\ RaisesOnGet(response)
    /\ ai_calls' = Append(ai_calls, idx)
    /\ pc' = "raised"
    /\ UNCHANGED <<settings, digest_html, all_trades, filtered, analyzed_trades, patterns,
                   alerts_sent, idx, results, sends, send_tally, pattern_calls>>
    /\ UNCHANGED notScan

\* PatternBatch that hands detect_patterns the top trades only
PatternBatchTopOnly == SubSeq(filtered, 1, TopCount)

\* run_scan, line 109: the trades argument of the detect_patterns call
PatternBatch == filtered

\* run_scan, lines 108-113 and 120: detect_patterns over the filtered list
DetectPatterns(response) ==
    /\ pc = "analyze"
    /\ settings.has_ai_provider
    /\ idx > TopCount
    /\ Len(filtered) >= 3
    /\ ~RaisesOnGet(response)
    /\ pattern_calls' = Append(pattern_calls, PatternBatch)
    /\ patterns' = response
    /\ alerts_sent' = 0
    /\ idx' = 1
    /\ pc' = "alert_telegram"
    /\ UNCHANGED <<settings, digest_html, all_trades, filtered, analyzed_trades, results, sends,
                   send_tally, ai_calls>>
    /\ UNCHANGED notScan

\* the same call when detect_patterns raises (ai_analyst.py lines 214-215)
DetectPatternsRaises(response) ==
    /\ pc = "analyze"
    /\ settings.has_ai_provider
    /\ idx > TopCount
    /\ Len(filtered) >= 3
    /\ RaisesOnGet(response)
    /\ pattern_calls' = Append(pattern_calls, PatternBatch)
    /\ pc' = "raised"
    /\ UNCHANGED <<settings, digest_html, all_trades, filtered, analyzed_trades, patterns,
                   alerts_sent, idx, results, sends, send_tally, ai_calls>>
    /\ UNCHANGED notScan

\* run_scan, line 113 and 120: fewer than three filtered trades, patterns = None
NoPatternDetection ==
    /\ pc = "analyze"
    /\ settings.has_ai_provider
    /\ idx > TopCount
    /\ Len(filtered) < 3
    /\ patterns' = None
    /\ alerts_sent' = 0
    /\ idx' = 1
    /\ pc' = "alert_telegram"
    /\ UNCHANGED <<settings, digest_html, all_trades, filtered, analyzed_trades, results, sends,
                   send_tally, ai_calls, pattern_calls>>
    /\ UNCHANGED notScan

\* SkipAnalysis that leaves analyzed_trades as line 94 initialised it
SkipAnalysisLeavesNoTrades ==
    /\ pc = "analyze"
    /\ ~settings.has_ai_provider
    /\ analyzed_trades' = <<>>
    /\ patterns' = None
    /\ alerts_sent' = 0
    /\ idx' = 1
    /\ pc' = "alert_telegram"
    /\ UNCHANGED <<settings, digest_html, all_trades, filtered, results, sends, send_tally,
                   ai_calls, pattern_calls>>
    /\ UNCHANGED notScan

\* run_scan, lines 114-120: no AI provider, the top trades go out un-enriched
SkipAnalysis ==
    /\ pc = "analyze"
    /\ ~settings.has_ai_provider
    /\ analyzed_trades' = SubSeq(filtered, 1, TopCount)
    /\ patterns' = None
    /\ alerts_sent' = 0
    /\ idx' = 1
    /\ pc' = "alert_telegram"
    /\ UNCHANGED <<settings, digest_html, all_trades, filtered, results, sends, send_tally,
                   ai_calls, pattern_calls>>
    /\ UNCHANGED notScan

\* one more send of this kind with this result
Tallied(kind, ok) == [send_tally EXCEPT ![<<kind, ok>>] = @ + 1]

SendEntry(kind, trade, channel) == [kind |-> kind, trade |-> trade, channel |-> channel]

\* AlertTelegram that moves on to the next trade when the send failed
AlertTelegramFailureSkipsEmail(ok) ==
    /\ pc = "alert_telegram"
    /\ idx <= Len(analyzed_trades)
    /\ settings.has_telegram
    /\ sends' = Append(sends, SendEntry("alert", idx, "telegram"))
    /\ send_tally' = Tallied("alert", ok)
    /\ alerts_sent' = IF ok THEN alerts_sent + 1 ELSE alerts_sent
    /\ pc' = IF ok THEN "alert_email" ELSE "alert_telegram"
    /\ idx' = IF ok THEN idx ELSE idx + 1
    /\ UNCHANGED <<settings, digest_html, all_trades, filtered, analyzed_trades, patterns,
                   results, ai_calls, pattern_calls>>
    /\ UNCHANGED notScan

\* run_scan, lines 122-131: format the alert of the next trade and send it
\* by Telegram; ok is what telegram.send_message returned
AlertTelegram(ok) ==
    /\ pc = "alert_telegram"
    /\ idx <= Len(analyzed_trades)
    /\ settings.has_telegram
    /\ sends' = Append(sends, SendEntry("alert", idx, "telegram"))
    /\ send_tally' = Tallied("alert", ok)
    /\ alerts_sent' = IF ok THEN alerts_sent + 1 ELSE alerts_sent
    /\ pc' = "alert_email"
    /\ UNCHANGED <<settings, digest_html, all_trades, filtered, analyzed_trades, patterns, idx,
                   results, ai_calls, pattern_calls>>
    /\ UNCHANGED notScan

\* run_scan, lines 122-125: Telegram is not configured
AlertNoTelegram ==
    /\ pc = "alert_telegram"
    /\ idx <= Len(analyzed_trades)
    /\ ~settings.has_telegram
    /\ pc' = "alert_email"
    /\ UNCHANGED <<settings, digest_html, all_trades, filtered, analyzed_trades, patterns,
                   alerts_sent, idx, results, sends, send_tally, ai_calls, pattern_calls>>
    /\ UNCHANGED notScan

\* AlertEmail that counts the send whatever send_email returned
AlertEmailCountsEverySend(ok) ==
    /\ pc = "alert_email"
    /\ settings.has_email
    /\ sends' = Append(sends, SendEntry("alert", idx, "email"))
    /\ send_tally' = Tallied("alert", ok)
    /\ alerts_sent' = alerts_sent + 1
    /\ idx' = idx + 1
    /\ pc' = "alert_telegram"
    /\ UNCHANGED <<settings, digest_html, all_trades, filtered, analyzed_trades, patterns,
                   results, ai_calls, pattern_calls>>
    /\ UNCHANGED notScan

\* run_scan, lines 133-145: send the alert by email; ok is what
\* email.send_email returned
AlertEmail(ok) ==
    /\ pc = "alert_email"
    /\ settings.has_email
    /\ sends' = Append(sends, SendEntry("alert", idx, "email"))
    /\ send_tally' = Tallied("alert", ok)
    /\ alerts_sent' = IF ok THEN alerts_sent + 1 ELSE alerts_sent
    /\ idx' = idx + 1
    /\ pc' = "alert_telegram"
    /\ UNCHANGED <<settings, digest_html, all_trades, filtered, analyzed_trades, patterns,
                   results, ai_calls, pattern_calls>>
    /\ UNCHANGED notScan

\* run_scan, line 133: email is not configured
AlertNoEmail ==
    /\ pc = "alert_email"
    /\ ~settings.has_email
    /\ idx' = idx + 1
    /\ pc' = "alert_telegram"
    /\ UNCHANGED <<settings, digest_html, all_trades, filtered, analyzed_trades, patterns,
                   alerts_sent, results, sends, send_tally, ai_calls, pattern_calls>>
    /\ UNCHANGED notScan

\* the number of trades format_daily_digest lists (trades[:10])
DigestTop == 10

\* formatter.format_daily_digest: what the digest text is made of (the count
\* of the header, the trades listed, the patterns and the summary shown; a
\* falsy report, patterns list or summary leaves its section out)
format_daily_digest(ts, report) ==
    [count |-> Len(ts),
     listed |-> SubSeq(ts, 1, Min2(DigestTop, Len(ts))),
     patterns |-> IF Truthy(report) THEN Get(report.value, "patterns", <<>>) ELSE <<>>,
     summary |-> IF Truthy(report) THEN Get(report.value, "summary", "") ELSE ""]

\* DigestTelegram that sends a digest for a single filtered trade as well
DigestTelegramForOneTrade(ok) ==
    /\ pc = "alert_telegram"
    /\ idx > Len(analyzed_trades)
    /\ Len(filtered) >= 1
    /\ settings.has_telegram
    /\ digest_html' = format_daily_digest(filtered, patterns)
    /\ sends' = Append(sends, SendEntry("digest", 0, "telegram"))
    /\ send_tally' = Tallied("digest", ok)
    /\ pc' = "digest_email"
    /\ UNCHANGED <<settings, all_trades, filtered, analyzed_trades, patterns,
                   alerts_sent, idx, results, ai_calls, pattern_calls>>
    /\ UNCHANGED notScan

\* run_scan, lines 148-156: the digest goes out by Telegram; its result is dropped
DigestTelegram(ok) ==
    /\ pc = "alert_telegram"
    /\ idx > Len(analyzed_trades)
    /\ Len(filtered) >= 2
    /\ settings.has_telegram
    /\ digest_html' = format_daily_digest(filtered, patterns)
    /\ sends' = Append(sends, SendEntry("digest", 0, "telegram"))
    /\ send_tally' = Tallied("digest", ok)
    /\ pc' = "digest_email"
    /\ UNCHANGED <<settings, all_trades, filtered, analyzed_trades, patterns,
                   alerts_sent, idx, results, ai_calls, pattern_calls>>
    /\ UNCHANGED notScan

\* run_scan, lines 148-151: a digest is due, Telegram is not configured
DigestNoTelegram ==
    /\ pc = "alert_telegram"
    /\ idx > Len(analyzed_trades)
    /\ Len(filtered) >= 2
    /\ ~settings.has_telegram
    /\ digest_html' = format_daily_digest(filtered, patterns)
    /\ pc' = "digest_email"
    /\ UNCHANGED <<settings, all_trades, filtered, analyzed_trades, patterns,
                   alerts_sent, idx, results, sends, send_tally, ai_calls, pattern_calls>>
    /\ UNCHANGED notScan

\* run_scan, line 148: fewer than two filtered trades, no digest
NoDigest ==
    /\ pc = "alert_telegram"
    /\ idx > Len(analyzed_trades)
    /\ Len(filtered) < 2
    /\ pc' = "results"
    /\ UNCHANGED <<settings, digest_html, all_trades, filtered, analyzed_trades, patterns,
                   alerts_sent, idx, results, sends, send_tally, ai_calls, pattern_calls>>
    /\ UNCHANGED notScan

\* run_scan, lines 158-167: the digest goes out by email; its result is dropped
DigestEmail(ok) ==
    /\ pc = "digest_email"
    /\ settings.has_email
    /\ sends' = Append(sends, SendEntry("digest", 0, "email"))
    /\ send_tally' = Tallied("digest", ok)
    /\ pc' = "results"
    /\ UNCHANGED <<settings, digest_html, all_trades, filtered, analyzed_trades, patterns,
                   alerts_sent, idx, results, ai_calls, pattern_calls>>
    /\ UNCHANGED notScan

\* run_scan, line 158: email is not configured
DigestNoEmail ==
    /\ pc = "digest_email"
    /\ ~settings.has_email
    /\ pc' = "results"
    /\ UNCHANGED <<settings, digest_html, all_trades, filtered, analyzed_trades, patterns,
                   alerts_sent, idx, results, sends, send_tally, ai_calls, pattern_calls>>
    /\ UNCHANGED notScan

\* run_scan, lines 169-175: the mapping returned at the end of a full cycle
Summary ==
    [trades_fetched |-> Len(all_trades),
     trades_filtered |-> Len(filtered),
     trades_analyzed |-> Len(analyzed_trades),
     patterns_found |-> IF Truthy(patterns)
                        THEN Get(patterns.value, "patterns_found", 0) ELSE 0,
     alerts_sent |-> alerts_sent]

\* run_scan, lines 169-178
ReturnResults ==
    /\ pc = "results"
    /\ results' = Summary
    /\ pc' = "returned"
    /\ UNCHANGED <<settings, digest_html, all_trades, filtered, analyzed_trades, patterns,
                   alerts_sent, idx, sends, send_tally, ai_calls, pattern_calls>>
    /\ UNCHANGED notScan

Next ==
    \/ ScanNothingNotable
    \/ ScanFoundTrades
    \/ \E response \in AnalysisResponses : AnalyzeTrade(response)
    \/ \E response \in AnalysisResponses : AnalyzeTradeRaises(response)
    \/ \E response \in PatternResponses : DetectPatterns(response)
    \/ \E response \in PatternResponses : DetectPatternsRaises(response)
    \/ NoPatternDetection
    \/ SkipAnalysis
    \/ \E ok \in BOOLEAN : AlertTelegram(ok)
    \/ AlertNoTelegram
    \/ \E ok \in BOOLEAN : AlertEmail(ok)
    \/ AlertNoEmail
    \/ \E ok \in BOOLEAN : DigestTelegram(ok)
    \/ DigestNoTelegram
    \/ NoDigest
    \/ \E ok \in BOOLEAN : DigestEmail(ok)
    \/ DigestNoEmail
    \/ ReturnResults

Spec == ScanInit /\ [][Next]_vars

(***************************************************************************)
(* Properties of run_scan.                                                 *)
(***************************************************************************)
EnabledChannels ==
    {ch \in Channels : \/ ch = "telegram" /\ settings.has_telegram
                       \/ ch = "email" /\ settings.has_email}

\* C3: when run_scan returns from a cycle with alerts, every enabled channel
\* was tried for the alert of every analyzed trade, and for the digest when
\* one was due, however many of the sends before it returned False.
C3_ChannelsAttemptedIndependently ==
    (pc = "returned" /\ filtered # <<>>) =>
        \A ch \in EnabledChannels :
            /\ \A t \in 1..Len(analyzed_trades) :
                   SendEntry("alert", t, ch) \in Range(sends)
            /\ Len(filtered) >= 2 => SendEntry("digest", 0, ch) \in Range(sends)

\* both channels on, several trades, every single send returned False, and
\* still each of them was made
C3_Witness ==
    /\ pc = "returned"
    /\ settings.has_telegram
    /\ settings.has_email
    /\ Len(analyzed_trades) >= 2
    /\ send_tally[<<"alert", FALSE>>] = 2 * Len(analyzed_trades)
    /\ send_tally[<<"digest", FALSE>>] = 2
    /\ Len(sends) = 2 * Len(analyzed_trades) + 2

\* C4: the alerts_sent that run_scan returns is the number of per-trade
\* sends that returned True (a failed send and a digest send add nothing),
\* and lies between 0 and min(5, trades_filtered) times the number of
\* enabled channels.
C4_AlertsSentCountsSuccessfulSends ==
    pc = "returned" =>
        /\ results["alerts_sent"] = send_tally[<<"alert", TRUE>>]
        /\ results["alerts_sent"] >= 0
        /\ results["alerts_sent"] <=
               Min2(5, results["trades_filtered"]) * Cardinality(EnabledChannels)

\* more than five filtered trades; some alert sends succeeded, some failed,
\* and a digest send succeeded without being counted
C4_Witness ==
    /\ pc = "returned"
    /\ results["trades_filtered"] > 5
    /\ send_tally[<<"alert", TRUE>>] >= 1
    /\ send_tally[<<"alert", FALSE>>] >= 1
    /\ send_tally[<<"digest", TRUE>>] >= 1
    /\ results["alerts_sent"] = send_tally[<<"alert", TRUE>>]

SummaryKeys ==
    {"trades_fetched", "trades_filtered", "trades_analyzed", "patterns_found", "alerts_sent"}

\* C9: every mapping run_scan returns has the five keys trades_fetched,
\* trades_filtered, trades_analyzed, patterns_found and alerts_sent, each
\* bound to a non-negative integer.
C9_SummaryHasFiveCounts ==
    pc = "returned" =>
        /\ DOMAIN results = SummaryKeys
        /\ \A k \in DOMAIN results : results[k] \in Nat

\* C10: when nothing passed the filter the cycle is over at once: no
\* analyze_trade call, no detect_patterns call and no send was made, nothing
\* was raised, and the summary has trades_filtered = 0, alerts_sent = 0 and
\* trades_fetched = the number of fetched records.
C10_EmptyFilterEndsCycle ==
    (pc \notin {"idle", "start"} /\ filtered = <<>>) =>
        /\ pc = "returned"
        /\ ai_calls = <<>>
        /\ pattern_calls = <<>>
        /\ sends = <<>>
        /\ results["trades_filtered"] = 0
        /\ results["alerts_sent"] = 0
        /\ results["trades_fetched"] = Len(all_trades)

\* records were fetched, none passed the filter, and run_scan has returned
C10_Witness ==
    /\ pc = "returned"
    /\ filtered = <<>>
    /\ Len(all_trades) >= 2
    /\ results["trades_fetched"] = Len(all_trades)

(***************************************************************************)
(* Properties of the analysis and dispatch steps of run_scan.              *)
(***************************************************************************)
\* the positions of run_scan after the analysis step (lines 97-117)
PastAnalysis == {"alert_telegram", "alert_email", "digest_email", "results", "returned"}

\* C11: in one run_scan cycle detect_patterns is called at most once; never
\* when fewer than 3 trades passed the filter or no provider is configured;
\* and once the analysis step is over with at least 3 filtered trades and a
\* provider, it was called exactly once, with the whole filtered list.
C11_PatternDetectionOncePerCycle ==
    /\ Len(pattern_calls) <= 1
    /\ (Len(filtered) < 3 \/ ~settings.has_ai_provider) => pattern_calls = <<>>
    /\ (pc \in PastAnalysis /\ Len(filtered) >= 3 /\ settings.has_ai_provider) =>
           pattern_calls = <<filtered>>

\* more than five trades passed the filter and the one detect_patterns call
\* got them all
C11_Witness ==
    /\ pc = "returned"
    /\ settings.has_ai_provider
    /\ Len(filtered) > TopN
    /\ Len(ai_calls) = TopN
    /\ pattern_calls = <<filtered>>

\* the enabled channels in the order run_scan tries them
ChannelOrder == SelectSeq(<<"telegram", "email">>, LAMBDA ch : ch \in EnabledChannels)

\* the per-trade sends of a whole cycle: trade 1 on every enabled channel,
\* then trade 2, ... up to trade min(5, n)
ClaimedTop == Min2(5, Len(filtered))

ExpectedAlertSends ==
    LET order == ChannelOrder
        k == Len(order)
    IN [i \in 1..(ClaimedTop * k) |->
           SendEntry("alert", ((i - 1) \div k) + 1, order[((i - 1) % k) + 1])]

AlertSends == SelectSeq(sends, LAMBDA e : e.kind = "alert")

IsPrefix(p, q) == Len(p) <= Len(q) /\ p = SubSeq(q, 1, Len(p))

\* a record without the enrichment run_scan attached to it
WithoutAnalysis(t) == Restrict(t, DOMAIN t \ {"ai_analysis"})

\* C12: the per-trade sends of a cycle go trade by trade down the filtered
\* list, each enabled channel once per trade; when run_scan returns, exactly
\* the first min(5, n) trades of the filtered list were alerted, and that
\* list is in descending order of score with the trades of one score in the
\* order they were fetched in.
C12_TopTradesAlertedInScoreOrder ==
    /\ IsPrefix(AlertSends, ExpectedAlertSends)
    /\ (pc = "returned" /\ filtered # <<>>) =>
           /\ AlertSends = ExpectedAlertSends
           /\ analyzed_trades = SubSeq(filtered, 1, ClaimedTop)
           /\ \A p, q \in 1..Len(filtered) :
                  p < q => filtered[p]["score"] >= filtered[q]["score"]
           /\ LET kept == [i \in 1..Len(filtered) |-> WithoutAnalysis(filtered[i])]
              IN \A s \in {t["score"] : t \in Range(kept)} :
                     SelectSeq(kept, LAMBDA t : ScoreIs(s, t)) =
                         SelectSeq(all_trades,
                                   LAMBDA t : ScoreIs(s, t) /\ t \in Range(kept))

\* six filtered trades on two channels: the sort put the congress sales,
\* fetched last, in front of the purchases; five trades got two sends each
\* and the sixth got none
C12_Witness ==
    /\ pc = "returned"
    /\ Len(filtered) = 6
    /\ Len(ChannelOrder) = 2
    /\ Len(AlertSends) = 10
    /\ filtered[1]["score"] > filtered[6]["score"]
    /\ all_trades[1]["score"] < all_trades[6]["score"]
    /\ \A e \in Range(sends) : e.trade # 6

DigestSends == SelectSeq(sends, LAMBDA e : e.kind = "digest")

\* C13: a digest is sent exactly when at least 2 trades passed the filter;
\* it is one message, made of the whole filtered list and of the pattern
\* report when there is one, sent once on each enabled channel, after every
\* per-trade send of the cycle.
C13_DigestIffTwoFiltered ==
    /\ sends = AlertSends \o DigestSends
    /\ DigestSends # <<>> => AlertSends = ExpectedAlertSends
    /\ Len(filtered) < 2 => (DigestSends = <<>> /\ digest_html = None)
    /\ (pc = "returned" /\ Len(filtered) >= 2) =>
           /\ LET order == ChannelOrder
              IN DigestSends = [i \in 1..Len(order) |-> SendEntry("digest", 0, order[i])]
           /\ digest_html # None
           /\ digest_html.count = Len(filtered)
           /\ digest_html.listed = SubSeq(filtered, 1, Min2(10, Len(filtered)))
           /\ digest_html.summary =
                  IF patterns = None THEN "" ELSE Get(patterns.value, "summary", "")

\* a cycle with exactly two filtered trades and a pattern-free digest on both
\* channels, after the four per-trade sends
C13_Witness ==
    /\ pc = "returned"
    /\ Len(filtered) = 2
    /\ Len(ChannelOrder) = 2
    /\ Len(sends) = 6
    /\ sends[5].kind = "digest"
    /\ sends[6].kind = "digest"
    /\ digest_html # None
    /\ digest_html.count = 2

\* C14: without an enrichment provider run_scan calls neither analyze_trade
\* nor detect_patterns and raises nothing; the top min(5, n) filtered trades
\* go on un-enriched, the cycle can always take its next step, and when it
\* returns their alerts, and the digest when n >= 2, were sent on every
\* enabled channel.
C14_NoProviderDegradesGracefully ==
    ~settings.has_ai_provider =>
        /\ ai_calls = <<>>
        /\ pattern_calls = <<>>
        /\ patterns = None
        /\ pc # "raised"
        /\ pc # "returned" => ENABLED Next
        /\ \A i \in 1..Len(analyzed_trades) : "ai_analysis" \notin DOMAIN analyzed_trades[i]
        /\ pc \in PastAnalysis => analyzed_trades = SubSeq(filtered, 1, ClaimedTop)
        /\ (pc = "returned" /\ filtered # <<>>) =>
               /\ AlertSends = ExpectedAlertSends
               /\ Len(DigestSends) = IF Len(filtered) >= 2 THEN Len(ChannelOrder) ELSE 0
               /\ results["trades_analyzed"] = ClaimedTop
               /\ results["patterns_found"] = 0

\* no provider, three filtered trades, both channels: six per-trade sends
\* and two digest sends, and the cycle returned
C14_Witness ==
    /\ ~settings.has_ai_provider
    /\ pc = "returned"
    /\ Len(filtered) = 3
    /\ Len(ChannelOrder) = 2
    /\ Len(AlertSends) = 6
    /\ Len(DigestSends) = 2
    /\ results["trades_analyzed"] = 3

\* C15: analyze_trade never raises, whatever the provider returned: no cycle
\* is aborted inside the analyze loop, and in a cycle that returns every top
\* trade, also one whose analysis came back absent, got its alert on every
\* enabled channel.
C15_AnalyzeTradeNeverRaises ==
    /\ ~(pc = "raised" /\ pattern_calls = <<>>)
    /\ (pc = "returned" /\ filtered # <<>>) =>
           /\ Len(analyzed_trades) = ClaimedTop
           /\ AlertSends = ExpectedAlertSends

(***************************************************************************)
(* scanner.py: DeepStockScanner.watch.  SIGINT reaches the main thread as  *)
(* a KeyboardInterrupt at whatever statement is running; the schedule      *)
(* library runs the job inside run_pending and lets its exceptions out.    *)
(***************************************************************************)
\* most records the sources hold together while watch runs
MaxWatchFetch == 3
\* most cycles watch is followed through
MaxCycles == 2

\* what a returned cycle leaves behind for comparison with the next one
CycleRecord ==
    [all_trades |-> all_trades,
     filtered |-> [i \in 1..Len(filtered) |-> WithoutAnalysis(filtered[i])],
     alerted |-> [i \in 1..Len(analyzed_trades) |-> WithoutAnalysis(analyzed_trades[i])],
     alert_sends |-> AlertSends,
     digest_sends |-> DigestSends]

\* the locals of run_scan before its first statement (pos "start") and once
\* its frame is gone (pos "idle")
FreshFrame(pos) ==
    /\ pc' = pos
    /\ all_trades' = <<>>
    /\ filtered' = <<>>
    /\ analyzed_trades' = <<>>
    /\ patterns' = None
    /\ alerts_sent' = 0
    /\ idx' = 0
    /\ results' = EmptyDict
    /\ sends' = <<>>
    /\ send_tally' = NoSendsYet
    /\ ai_calls' = <<>>
    /\ pattern_calls' = <<>>
    /\ digest_html' = None
    /\ UNCHANGED settings

\* the configurations watch is followed under: FMP and EDGAR as sources,
\* every combination of provider and channels
WatchSettings == {s \in SettingsSpace : s.fmp_api_key /\ ~s.finnhub_api_key}

WatchInit ==
    /\ SendIdle
    /\ ScoreIdle
    /\ FilterIdle
    /\ StripIdle
    /\ ParseIdle
    /\ source_cap = MaxWatchFetch
    /\ settings \in WatchSettings
    /\ pc = "idle"
    /\ all_trades = <<>>
    /\ filtered = <<>>
    /\ analyzed_trades = <<>>
    /\ patterns = None
    /\ alerts_sent = 0
    /\ idx = 0
    /\ results = EmptyDict
    /\ sends = <<>>
    /\ send_tally = NoSendsYet
    /\ ai_calls = <<>>
    /\ pattern_calls = <<>>
    /\ digest_html = None
    /\ wpc = "entered"
    /\ cycles = 0
    /\ escaped = "none"
    /\ at_interrupt = None
    /\ prev = None

\* watch, line 189: the first run_scan call, before the try statement
WatchFirstScan ==
    /\ wpc = "entered"
    /\ FreshFrame("start")
    /\ wpc' = "first"
    /\ cycles' = 1
    /\ UNCHANGED <<escaped, at_interrupt, prev>>
    /\ UNCHANGED notWatch

\* watch, lines 189-193: the first run_scan returned (its result is dropped),
\* the job is scheduled and the loop is entered
WatchScheduleJob ==
    /\ wpc = "first"
    /\ pc = "returned"
    /\ prev' = CycleRecord
    /\ FreshFrame("idle")
    /\ wpc' = "loop"
    /\ UNCHANGED <<cycles, escaped, at_interrupt>>
    /\ UNCHANGED notWatch

\* watch, line 194: run_pending finds the job due and calls run_scan
WatchRunPending ==
    /\ wpc = "loop"
    /\ cycles < MaxCycles
    /\ FreshFrame("start")
    /\ wpc' = "job"
    /\ cycles' = cycles + 1
    /\ UNCHANGED <<escaped, at_interrupt, prev>>
    /\ UNCHANGED notWatch

\* watch, lines 194-195: the scheduled run_scan returned, back to the loop
WatchJobDone ==
    /\ wpc = "job"
    /\ pc = "returned"
    /\ prev' = CycleRecord
    /\ FreshFrame("idle")
    /\ wpc' = "loop"
    /\ UNCHANGED <<cycles, escaped, at_interrupt>>
    /\ UNCHANGED notWatch

\* an exception of run_scan is no KeyboardInterrupt: it leaves watch from
\* line 189 as from line 194
WatchScanRaised ==
    /\ wpc \in {"first", "job"}
    /\ pc = "raised"
    /\ wpc' = "propagated"
    /\ escaped' = "AttributeError"
    /\ UNCHANGED <<cycles, at_interrupt, prev>>
    /\ UNCHANGED scanVars
    /\ UNCHANGED notWatch

\* the positions of watch at which SIGINT can still arrive
WatchRunning == {"entered", "first", "loop", "job"}

\* the positions of watch inside the try statement of lines 192-197
InsideTry == {"loop", "job"}

\* KeyboardInterrupt that is held back until the running cycle is over: the
\* loop is marked stopped and run_scan goes on
KeyboardInterruptDeferred ==
    /\ wpc \in WatchRunning
    /\ pc # "raised"
    /\ at_interrupt' = [wpc |-> wpc, pc |-> pc, sends |-> sends, cycles |-> cycles]
    /\ wpc' = IF wpc \in InsideTry THEN "stopped" ELSE "propagated"
    /\ escaped' = IF wpc \in InsideTry THEN "none" ELSE "KeyboardInterrupt"
    /\ UNCHANGED <<cycles, prev>>
    /\ UNCHANGED scanVars
    /\ UNCHANGED notWatch

\* SIGINT while watch runs: the statement in progress is abandoned, also in
\* the middle of run_scan; lines 196-197 catch the exception when it comes
\* from the loop of lines 193-195, and nothing catches it before line 192
KeyboardInterrupt ==
    /\ wpc \in WatchRunning
    /\ pc # "raised"
    /\ at_interrupt' = [wpc |-> wpc, pc |-> pc, sends |-> sends, cycles |-> cycles]
    /\ pc' = IF pc = "idle" THEN "idle" ELSE "interrupted"
    /\ wpc' = IF wpc \in InsideTry THEN "stopped" ELSE "propagated"
    /\ escaped' = IF wpc \in InsideTry THEN "none" ELSE "KeyboardInterrupt"
    /\ UNCHANGED <<cycles, prev>>
    /\ UNCHANGED <<settings, all_trades, filtered, analyzed_trades, patterns,
                   alerts_sent, idx, results, sends, send_tally, ai_calls,
                   pattern_calls, digest_html>>
    /\ UNCHANGED notWatch

WatchNext ==
    \/ WatchFirstScan
    \/ WatchScheduleJob
    \/ WatchRunPending
    \/ WatchJobDone
    \/ WatchScanRaised
    \/ KeyboardInterrupt
    \/ Next

SpecWatch == WatchInit /\ [][WatchNext]_vars

(***************************************************************************)
(* Properties of watch.                                                    *)
(***************************************************************************)
\* C16: watch runs a first cycle at once and further ones from its loop,
\* and a SIGINT that arrives at any point after watch started, the first
\* cycle included, ends watch by a normal return: no exception leaves it.
C16_InterruptStopsWatchCleanly ==
    /\ wpc \in {"loop", "job"} => cycles >= 1
    /\ at_interrupt # None => (wpc = "stopped" /\ escaped = "none")

\* C17 as claimed: when the loop of watch has been stopped, the cycle that
\* was running had finished its dispatch loop (all alerts and the digest
\* attempted), or no cycle was running.
C17_StopOnlyBetweenCycles ==
    (wpc = "stopped" /\ at_interrupt # None) =>
        at_interrupt.pc \in {"idle", "results", "returned"}

\* C17 as amended: the stop signal takes effect where it arrives; from then
\* on watch starts no cycle and the cycle in flight sends nothing more, so
\* what it had sent by then is all it sends, a prefix of the cycle's sends.
C17_StopTakesEffectWhereItArrives ==
    at_interrupt # None =>
        /\ wpc \in {"stopped", "propagated"}
        /\ pc \in {"idle", "interrupted"}
        /\ sends = at_interrupt.sends
        /\ cycles = at_interrupt.cycles
        /\ IsPrefix(AlertSends, ExpectedAlertSends)
        /\ escaped = IF at_interrupt.wpc \in InsideTry THEN "none" ELSE "KeyboardInterrupt"

\* the second cycle was stopped from inside the loop between the two sends
\* of its first alert: one send made, the email send and the digest not
C17_Witness ==
    /\ wpc = "stopped"
    /\ at_interrupt # None
    /\ at_interrupt.pc = "alert_email"
    /\ cycles = 2
    /\ settings.has_email
    /\ Len(filtered) >= 2
    /\ Len(sends) = 1
    /\ digest_html = None

\* C18: nothing is carried from one cycle to the next: a cycle that fetched
\* the records the cycle before it fetched has the same filtered list, the
\* same alerted trades and the same sends; and whatever was fetched, a trade
\* the cycle before retained is retained again when it is fetched again.
C18_NoCrossCycleState ==
    (pc = "returned" /\ prev # None) =>
        /\ all_trades = prev.all_trades => CycleRecord = prev
        /\ \A t \in Range(prev.filtered) :
               t \in Range(all_trades) => t \in Range(CycleRecord.filtered)

\* the second cycle fetched the three records of the first again, and
\* alerted and digested the same two trades again
C18_Witness ==
    /\ pc = "returned"
    /\ cycles = 2
    /\ prev # None
    /\ Len(all_trades) = 3
    /\ all_trades = prev.all_trades
    /\ Len(prev.filtered) = 2
    /\ Len(ChannelOrder) = 2
    /\ Len(AlertSends) = 4
    /\ AlertSends = prev.alert_sends
    /\ Len(DigestSends) = 2

(***************************************************************************)
(* Plain-text stripping: re.sub(r"<[^>]+>", "", html) of                   *)
(* email.send_email and formatter.format_breaking_alert_text.              *)
(***************************************************************************)
\* longest HTML text stripped
MaxHtml == 6

TagAlphabet == {"<", ">", "b"}

HtmlTexts == StringsUpTo(TagAlphabet, MaxHtml)

\* the lowest index i >= start with s[i] in C, or -1
FirstOf(s, C, start) ==
    LET hits == {i \in start..(Len(s) - 1) : CharAt(s, i) \in C}
    IN IF hits = {} THEN -1 ELSE CHOOSE i \in hits : \A j \in hits : i <= j

\* the end of the match of <[^>]+> that starts at index i, or -1: "<", then
\* the longest run of characters other than ">", at least one, then ">"
TagEnd(s, i) ==
    LET close == FirstOf(s, {">"}, i + 1)
    IN IF CharAt(s, i) = "<" /\ close >= i + 2 THEN close ELSE -1

\* the end of the match of <[^<>]+> at index i, or -1
InnermostTagEnd(s, i) ==
    LET stop == FirstOf(s, {"<", ">"}, i + 1)
    IN IF CharAt(s, i) = "<" /\ stop >= i + 2 /\ CharAt(s, stop) = ">" THEN stop ELSE -1

RECURSIVE InnermostStripFrom(_, _)
InnermostStripFrom(s, i) ==
    IF i >= Len(s) THEN ""
    ELSE IF InnermostTagEnd(s, i) # -1 THEN InnermostStripFrom(s, InnermostTagEnd(s, i) + 1)
    ELSE CharAt(s, i) \o InnermostStripFrom(s, i + 1)

\* StripTags with the pattern <[^<>]+>, which takes innermost tags only
StripInnermostTags(s) == InnermostStripFrom(s, 0)

\* re.sub scans left to right: a match is dropped and the scan goes on
\* behind it, any other character is kept
RECURSIVE StripFrom(_, _)
StripFrom(s, i) ==
    IF i >= Len(s) THEN ""
    ELSE IF TagEnd(s, i) # -1 THEN StripFrom(s, TagEnd(s, i) + 1)
    ELSE CharAt(s, i) \o StripFrom(s, i + 1)

\* re.sub(r"<[^>]+>", "", s)
StripTags(s) == StripFrom(s, 0)

StripInit ==
    /\ ParseIdle
    /\ SendIdle
    /\ ScoreIdle
    /\ FilterIdle
    /\ ScanIdle
    /\ WatchIdle
    /\ source_cap = 0
    /\ body_html \in HtmlTexts
    /\ body_text = ""
    /\ restripped = ""
    /\ strip_pc = "input"

\* email.py line 46, formatter.py line 55
StripOnce ==
    /\ strip_pc = "input"
    /\ body_text' = StripTags(body_html)
    /\ strip_pc' = "once"
    /\ UNCHANGED <<body_html, restripped>>
    /\ UNCHANGED notStrip

\* the same substitution on its own output
StripAgain ==
    /\ strip_pc = "once"
    /\ restripped' = StripTags(body_text)
    /\ strip_pc' = "twice"
    /\ UNCHANGED <<body_html, body_text>>
    /\ UNCHANGED notStrip

StripNext == StripOnce \/ StripAgain

SpecStrip == StripInit /\ [][StripNext]_vars

\* C19: stripping is total and idempotent: every text, whatever its tags
\* look like, has a stripped form, no longer than the text and with no
\* match of "<", one or more non-">", ">" left in it, and stripping that
\* form again returns it unchanged.
C19_StripIdempotent ==
    /\ strip_pc \in {"once", "twice"} =>
           /\ Len(body_text) <= Len(body_html)
           /\ \A i \in 0..(Len(body_text) - 1) :
                  ~(/\ CharAt(body_text, i) = "<"
                    /\ \E j \in (i + 2)..(Len(body_text) - 1) :
                           /\ CharAt(body_text, j) = ">"
                           /\ \A k \in (i + 1)..(j - 1) : CharAt(body_text, k) # ">")
    /\ strip_pc = "twice" => restripped = body_text

\* nested, unbalanced tags: "<<b>b>" loses "<<b>" and keeps "b>" twice over
C19_Witness ==
    /\ strip_pc = "twice"
    /\ body_html = "<<b>b>"
    /\ body_text = "b>"
    /\ restripped = "b>"

(***************************************************************************)
(* Properties of the score bar of format_breaking_alert.                   *)
(***************************************************************************)
\* how often the one-character string c occurs in s
CountChar(s, c) == Cardinality({i \in 0..(Len(s) - 1) : CharAt(s, i) = c})

\* C20 as claimed: the bar of the alert holds round(score) filled units
\* (5.5 gives 6), followed by the numeric score.
C20_BarIsRoundedScore ==
    score_pc = "formatted" =>
        /\ CountChar(score_line, "█") = PyRound(rec_score)
        /\ \E k \in 1..Len(score_line) :
               SubSeq(score_line, k, Len(score_line)) = " " \o OneDecimal(rec_score) \o "/10"

\* C20 as amended: the bar holds int(score) filled units, the score cut
\* down to a whole number (5.5 gives 5), followed by a blank, the score with
\* one decimal and "/10".
C20_BarIsTruncatedScore ==
    score_pc = "formatted" =>
        LET n == CountChar(score_line, "█")
        IN /\ n \in 0..10
           /\ n * 10 <= rec_score
           /\ rec_score < (n + 1) * 10
           /\ SubSeq(score_line, 12, Len(score_line)) =
                  Repeat("█", n) \o " " \o OneDecimal(rec_score) \o "/10"

\* a record scored 5.5 gets five filled units
C20_Witness ==
    /\ score_pc = "formatted"
    /\ rec_score = 55
    /\ score_line = "  Score:   █████ 5.5/10"

(***************************************************************************)
(* Properties of _split_message.                                           *)
(***************************************************************************)
\* the 0-based positions up to last at which t has a newline
NewlinesUpTo(t, last) == {i \in 0..Min2(last, Len(t) - 1) : CharAt(t, i) = "\n"}

\* rest without the newlines it begins with is next
IsNewlineStripped(rest, next) ==
    /\ \E k \in 0..Len(rest) : rest = Repeat("\n", k) \o next
    /\ next = "" \/ CharAt(next, 0) # "\n"

\* a step of the while loop that cuts the remaining text at position cut
CutsAt(cut) ==
    /\ chunks' = Append(chunks, Slice(text, 0, cut))
    /\ IsNewlineStripped(SliceFrom(text, cut), text')

\* C21 as claimed: a remaining text longer than the limit L is cut at the
\* last newline at a position from 0 to L, position L included, and after
\* exactly L characters only when none of these positions holds a newline;
\* the remainder loses its leading newlines.
C21_CutsAtLastNewlineUpToLimit ==
    [][(spc = "loop" /\ Len(text) > max_length) =>
          LET at == NewlinesUpTo(text, max_length)
          IN CutsAt(IF at = {} THEN max_length ELSE SetMax(at))]_vars

\* C21 as amended: the cut is at the last newline among the first L
\* characters (positions 0 to L - 1); a newline right behind them does not
\* count, and without a newline among the first L characters the text is
\* cut after exactly L characters; the remainder loses its leading newlines.
C21_CutsAtLastNewlineWithinLimit ==
    [][(spc = "loop" /\ Len(text) > max_length) =>
          LET at == NewlinesUpTo(text, max_length - 1)
          IN CutsAt(IF at = {} THEN max_length ELSE SetMax(at))]_vars

\* "a\nb\na" with limit 3: the newline at position 3 is passed over for the
\* one at position 1
C21_Witness ==
    /\ spc = "post"
    /\ max_length = 3
    /\ msg = "a\nb\na"
    /\ chunks = <<"a", "b\na">>

(***************************************************************************)
(* analysis/ai_analyst.py: _parse_json_response                            *)
(***************************************************************************)
MaxTokens == 4

\* a Python str
Str(s) == [kind |-> "str", value |-> s]

\* what json.loads raises on a text that is no JSON document
JSONDecodeError == [kind |-> "JSONDecodeError"]

\* the three backticks that open and close a fenced code block; a string
\* of this module cannot hold a backtick, "~" stands for it
Fence == "~~~"

\* the pieces the replies are put together from: three JSON documents, a
\* fence, the language tag, whitespace and prose
ReplyTokens == {"{\"a\":1}", "null", "[1]", Fence, "json", "\n", "x"}

\* every text of at most n pieces
RECURSIVE TokenTexts(_)
TokenTexts(n) ==
    IF n = 0 THEN {""}
    ELSE LET shorter == TokenTexts(n - 1)
         IN shorter \cup {s \o t : s \in shorter, t \in ReplyTokens}

Replies == {None} \cup {Str(s) : s \in TokenTexts(MaxTokens)}

\* the JSON documents that can be written with the pieces, and their values
JsonDocuments ==
    ("{\"a\":1}" :> Dict([a |-> 1])) @@ ("null" :> None) @@ ("[1]" :> List(<<1>>))

\* json.loads(s): whitespace around the document is skipped, anything else
\* around it, or no document at all, raises
json_loads(s) ==
    LET doc == Strip(s)
    IN IF doc \in DOMAIN JsonDocuments THEN JsonDocuments[doc] ELSE JSONDecodeError

SetMin(S) == CHOOSE m \in S : \A x \in S : m <= x

\* s.find(c) for a one-character c
Find(s, c) ==
    LET hits == {i \in 0..(Len(s) - 1) : CharAt(s, i) = c}
    IN IF hits = {} THEN -1 ELSE SetMin(hits)

IsFence(s, i) == Slice(s, i, i + 3) = Fence

\* the lowest index from index from on where a fence starts, or -1
FindFence(s, from) ==
    LET hits == {e \in from..(Len(s) - 3) : IsFence(s, e)}
    IN IF hits = {} THEN -1 ELSE SetMin(hits)

\* how many whitespace characters stand at index i and behind it (\s*)
RECURSIVE WsRun(_, _)
WsRun(s, i) ==
    IF i < Len(s) /\ CharAt(s, i) \in {" ", "\n", "\t"} THEN 1 + WsRun(s, i + 1) ELSE 0

\* the group of the match of FENCE(?:json)?\s*(.+?)FENCE that starts at i and
\* gives `tag` characters to (?:json)?, as <<group>>, or <<>> when there is
\* none: \s* is greedy and gives characters back, (.+?) takes the fewest
\* characters, at least one, that a fence follows
FenceGroupAt(s, i, tag) ==
    LET after == i + 3 + tag
        ws == {w \in 0..WsRun(s, after) : FindFence(s, after + w + 1) # -1}
    IN IF ws = {} THEN <<>>
       ELSE LET c == after + SetMax(ws) IN <<Slice(s, c, FindFence(s, c + 1))>>

\* the match that starts at i: (?:json)? takes the tag when it can
FenceMatchAt(s, i) ==
    IF ~IsFence(s, i) THEN <<>>
    ELSE IF Slice(s, i + 3, i + 7) = "json" /\ FenceGroupAt(s, i, 4) # <<>>
         THEN FenceGroupAt(s, i, 4)
    ELSE FenceGroupAt(s, i, 0)

\* re.search(r"FENCE(?:json)?\s*(.+?)FENCE", s, re.DOTALL): group 1 of the
\* leftmost match as <<group>>, or <<>> for no match
FenceSearch(s) ==
    LET hits == {i \in 0..(Len(s) - 1) : FenceMatchAt(s, i) # <<>>}
    IN IF hits = {} THEN <<>> ELSE FenceMatchAt(s, SetMin(hits))

\* BracePart that starts at the last "{"
BracePartFromLastBrace(s) ==
    LET start == Rfind(s, "{", 0, Len(s))
        end == Rfind(s, "}", 0, Len(s))
    IN IF start # -1 /\ end # -1 THEN <<Slice(s, start, end + 1)>> ELSE <<>>

\* text[start:end + 1] of lines 126 to 130 as <<part>>, or <<>> when a
\* brace is missing
BracePart(s) ==
    LET start == Find(s, "{")
        end == Rfind(s, "}", 0, Len(s))
    IN IF start # -1 /\ end # -1 THEN <<Slice(s, start, end + 1)>> ELSE <<>>

ParseInit ==
    /\ SendIdle
    /\ ScoreIdle
    /\ FilterIdle
    /\ ScanIdle
    /\ WatchIdle
    /\ StripIdle
    /\ source_cap = 0
    /\ llm_text \in Replies
    /\ parse_pc = "entry"
    /\ tried = <<>>
    /\ parsed = None

\* not text: None and "" are falsy
NoText(t) == IF t.kind = "None" THEN TRUE ELSE t.value = ""

\* lines 114, 115
ParseNoText ==
    /\ parse_pc = "entry"
    /\ NoText(llm_text)
    /\ parsed' = None
    /\ parse_pc' = "returned"
    /\ UNCHANGED <<llm_text, tried>>
    /\ UNCHANGED notParse

\* lines 116 to 119
ParseWhole ==
    /\ parse_pc = "entry"
    /\ ~NoText(llm_text)
    /\ tried' = Append(tried, "whole")
    /\ IF json_loads(llm_text.value) # JSONDecodeError
       THEN parsed' = json_loads(llm_text.value) /\ parse_pc' = "returned"
       ELSE parsed' = parsed /\ parse_pc' = "fence"
    /\ UNCHANGED llm_text
    /\ UNCHANGED notParse

\* lines 120 to 125
ParseFenced ==
    /\ parse_pc = "fence"
    /\ LET match == FenceSearch(llm_text.value)
       IN IF match = <<>>
          THEN parsed' = parsed /\ parse_pc' = "braces" /\ tried' = tried
          ELSE /\ tried' = Append(tried, "fenced")
               /\ IF json_loads(match[1]) # JSONDecodeError
                  THEN parsed' = json_loads(match[1]) /\ parse_pc' = "returned"
                  ELSE parsed' = parsed /\ parse_pc' = "braces"
    /\ UNCHANGED llm_text
    /\ UNCHANGED notParse

\* lines 126 to 132
ParseBraces ==
    /\ parse_pc = "braces"
    /\ LET part == BracePart(llm_text.value)
       IN IF part = <<>>
          THEN parsed' = parsed /\ parse_pc' = "warn" /\ tried' = tried
          ELSE /\ tried' = Append(tried, "braces")
               /\ IF json_loads(part[1]) # JSONDecodeError
                  THEN parsed' = json_loads(part[1]) /\ parse_pc' = "returned"
                  ELSE parsed' = parsed /\ parse_pc' = "warn"
    /\ UNCHANGED llm_text
    /\ UNCHANGED notParse

\* lines 133, 134
ParseGiveUp ==
    /\ parse_pc = "warn"
    /\ parsed' = None
    /\ parse_pc' = "returned"
    /\ UNCHANGED <<llm_text, tried>>
    /\ UNCHANGED notParse

ParseNext == ParseNoText \/ ParseWhole \/ ParseFenced \/ ParseBraces \/ ParseGiveUp

SpecParse == ParseInit /\ [][ParseNext]_vars

(***************************************************************************)
(* Properties of _parse_json_response                                      *)
(***************************************************************************)
\* the contents of the first fenced code block of s, a "json" tag dropped,
\* as <<contents>>, or <<>> when s has no fenced block
FirstFencedBlock(s) ==
    LET open == FindFence(s, 0)
        close == IF open = -1 THEN -1 ELSE FindFence(s, open + 3)
        tag == IF open # -1 /\ Slice(s, open + 3, open + 7) = "json" THEN 4 ELSE 0
    IN IF close = -1 THEN <<>>
       ELSE IF open + 3 + tag <= close THEN <<Slice(s, open + 3 + tag, close)>>
       ELSE <<Slice(s, open + 3, close)>>

\* the substring of s from the first "{" to the last "}"
FirstToLastBrace(s) ==
    IF Find(s, "{") = -1 \/ Rfind(s, "}", 0, Len(s)) = -1 THEN <<>>
    ELSE <<Slice(s, Find(s, "{"), Rfind(s, "}", 0, Len(s)) + 1)>>

StrategyNames == <<"whole", "fenced", "braces">>

\* what each strategy has to parse, in the stated order
StrategyInputs(s) == <<(<<s>>), FirstFencedBlock(s), FirstToLastBrace(s)>>

\* the strategies that parse
Parsing(s) ==
    {k \in 1..3 : /\ StrategyInputs(s)[k] # <<>>
                  /\ json_loads(StrategyInputs(s)[k][1]) # JSONDecodeError}

\* the place of a strategy in the stated order
StrategyIndex(name) == CHOOSE k \in 1..3 : StrategyNames[k] = name

\* the result is that of the first strategy that parses, the strategies
\* were tried in the stated order, and one was tried only when every
\* strategy before it fails
FirstParsingWins ==
    IF NoText(llm_text) THEN parsed = None /\ tried = <<>>
    ELSE LET s == llm_text.value
         IN /\ \A i \in 1..Len(tried) :
                   /\ \A j \in 1..(i - 1) :
                          StrategyIndex(tried[j]) < StrategyIndex(tried[i])
                   /\ \A k \in Parsing(s) : StrategyIndex(tried[i]) <= k
            /\ Parsing(s) # {} =>
                   /\ parsed = json_loads(StrategyInputs(s)[SetMin(Parsing(s))][1])
                   /\ tried # <<>>
                   /\ StrategyIndex(tried[Len(tried)]) = SetMin(Parsing(s))

\* C22 as stated: the strategies are tried in the order whole reply, first
\* fenced block, first "{" to last "}", the first that parses gives the
\* result, and the result is None exactly when none parses or the reply is
\* empty or None.
C22_NoneExactlyWhenAllFail ==
    parse_pc = "returned" =>
        /\ FirstParsingWins
        /\ parsed = None <=> (NoText(llm_text) \/ Parsing(llm_text.value) = {})

\* C22, amended: as above, but the result is also None when the first
\* strategy that parses yields JSON null.
C22_NoneWhenAllFailOrNull ==
    parse_pc = "returned" =>
        /\ FirstParsingWins
        /\ parsed = None <=>
               \/ NoText(llm_text)
               \/ Parsing(llm_text.value) = {}
               \/ json_loads(StrategyInputs(llm_text.value)
                                 [SetMin(Parsing(llm_text.value))][1]) = None

\* the whole reply and its fenced block fail, the braces parse
C22_Witness ==
    /\ parse_pc = "returned"
    /\ llm_text = Str(Fence \o "x" \o Fence \o "{\"a\":1}")
    /\ tried = <<"whole", "fenced", "braces">>
    /\ parsed = Dict([a |-> 1])

(***************************************************************************)
(* Properties of the chunks of _split_message                              *)
(***************************************************************************)
\* C23: no chunk of a non-empty text is empty, so send_message posts no
\* empty message body (the splitting loop itself ends for every text and
\* every max_length >= 1).
C23_NoEmptyChunk ==
    msg # "" =>
        /\ \A i \in 1..Len(chunks) : chunks[i] # ""
        /\ \A i \in 1..Len(attempts) : chunks[attempts[i].chunk] # ""

(***************************************************************************)
(* Properties of the value _parse_json_response returns                    *)
(***************************************************************************)
\* C24: what _parse_json_response returns, and with it analyze_trade and
\* detect_patterns, is None or a key-value mapping; a reply that parses as
\* a number, a string, a boolean or a list is never returned.
C24_ReturnsNoneOrMapping ==
    parse_pc = "returned" => parsed.kind \in {"None", "dict"}

(***************************************************************************)
(* Properties of score_trade on a record without signal                    *)
(***************************************************************************)
\* the field of the record is missing or the empty string
EmptyOrMissing(r, k) == Get(r, k, "") = ""

\* C25: a record whose value is below 50,000 and whose insider_name,
\* insider_title, transaction_type and source are all empty or missing
\* scores 0.0; the +2.0 of a notable person is not granted for an empty or
\* missing insider_name.
C25_NoSignalScoresZero ==
    (/\ score_pc = "scored"
     /\ Get(rec, "value", 0) < 50000
     /\ \A k \in {"insider_name", "insider_title", "transaction_type", "source"} :
            EmptyOrMissing(rec, k))
        => rec_score = 0

====
